---- MODULE Spec2Model ----
(***************************************************************************)
(* Day 6 "N-Object Priority VRAM Governor" (src/Day 2/VramGovernor/src/    *)
(* main.cpp, lines 441-904): telemetry with fallback estimate, the         *)
(* allocation watchdog, the key handler and the per-frame evaluate tick.   *)
(*                                                                         *)
(* Units.  Every float of the program that takes part in the control law   *)
(* is a multiple of 0.125 and stays below 16, so it is exact in binary32;  *)
(* the model stores such values as integers counting eighths               *)
(* (0.5 -> 4, 1.25 -> 10, 8.0 -> 64, 0.125 -> 1, 4.0 -> 32).  Time is      *)
(* counted in eighths of a second as well (evalDt 0.25 s -> 2).  The code  *)
(* uses the clock only in "now - lastEval < evalDt"; the model keeps that  *)
(* difference in sinceEval.  Megabytes and kilobytes are plain integers.   *)
(*                                                                         *)
(* Day 4 "Automatic Texel-Density Governor" (src/unnamed/part_001): the    *)
(* single-axis controller of main(), one sampler LOD bias driven by the    *)
(* free-memory controller and the density keeper.  Its bias is counted in  *)
(* 1/20000 (0.01 -> 200, 0.04 -> 800, 3.0 -> 60000) and densities in       *)
(* hundredths (0.35 -> 35); with the readings used every product of the    *)
(* code is a whole number of these units.  Rounding of binary32 is not     *)
(* modelled: every step the controllers take is far above one ulp.         *)
(*                                                                         *)
(* Day 5R "Priority-aware VRAM Governor" (the same file, lines 906-1292):  *)
(* the three-bucket governor with one bias per tier (biasLow, biasNorm,    *)
(* biasHigh), in the units of Day 6.                                       *)
(***************************************************************************)
EXTENDS Integers, Sequences, FiniteSets, TLC

\* ---------------------------------------------------------------- bounds
MaxDt      == 2      \* largest clock advance between two frames (eighths of a second)
MaxPads    == 5      \* most pads the operator allocates
MaxNoMoves == 3      \* cap of the watchdog's stall counter
MaxNudge   == 1      \* bracket presses explored this far from 0 and from each nudge limit (eighths)
MaxSteps   == 5      \* handler invocations explored by Spec, the whole-program specification
MaxFrames  == 2      \* loop iterations of the Day 4 program explored by SpecDay4
MaxSkips   == 2      \* rate-limited frames in a row an executed tick can tell apart

\* ------------------------------------------------------ program constants
targetFreeMB      == 1024
hysteresisMB      == 128
spikeThreshMB     == 256
stepGradual       == 4      \* 0.5f
stepSpike         == 10     \* 1.25f
stepBudgetPerTick == 4
evalDt            == 2      \* 0.25 s
PadMB             == 256
WatchdogMinDropMB == 128
NudgeStep         == 1      \* 0.125f
NudgeLimit        == 32     \* 4.f
DefaultBaseFreeMB == 6000
HudMaxIndex       == 5      \* the HUD of main() reads objects[0], objects[4], objects[5]

\* Day 5R (three-bucket governor), bias in eighths.
biasMin == 0                 \* 0.f
biasMax == 64                \* 8.f

\* Day 4, main(): governor settings and the limits of the sampler bias
DefaultTargetMB == 1024
TargetMinMB     == 256
TargetMaxMB     == 1536
bandMB          == 128
kp_vram         == 70     \* 0.0035f of bias per MB
rate            == 800    \* 0.04f
targetDensity   == 35     \* 0.35f
bandDensity     == 3      \* 0.03f
kp_den          == 3      \* 0.75f * 0.02f of bias per 1.0 of density
TargetStepMB    == 256
TargetFloorMB   == 128
KeyBiasStep     == 200    \* 0.01f
lodBiasMin      == -5000  \* -0.25f
lodBiasMax      == 60000  \* 3.0f

Max(a, b) == IF a >= b THEN a ELSE b
Min(a, b) == IF a <= b THEN a ELSE b
\* The one element of a singleton set.
The(S) == CHOOSE x \in S : TRUE
Clamp(x, lo, hi) == IF x < lo THEN lo ELSE IF x > hi THEN hi ELSE x

\* ----------------------------------------------------------------- inputs
\* GovObject as registered by addObj: bias 0, biasMin 0, biasMax 8.
GovObject(id, pr, vis, est) ==
    [id |-> id, priority |-> pr, biasMin |-> 0, biasMax |-> 64,
     visible |-> vis, estMB |-> est]

\* The registry main() builds.
DemoRegistry ==
    << GovObject(0, "Low",    TRUE, 200),
       GovObject(1, "Low",    TRUE, 150),
       GovObject(2, "Normal", TRUE, 180),
       GovObject(3, "Normal", TRUE, 120),
       GovObject(4, "High",   TRUE, 220),
       GovObject(5, "High",   TRUE, 100) >>

\* A registry whose Low tier is larger than the budget, whose footprint order
\* differs from the index order, with two hidden objects.
WideRegistry ==
    << GovObject(0, "Low",  TRUE,  100),
       GovObject(1, "Low",  TRUE,  300),
       GovObject(2, "High", FALSE, 400),
       GovObject(3, "Low",  TRUE,  200),
       GovObject(4, "Low",  TRUE,  250),
       GovObject(5, "Low",  FALSE, 500),
       GovObject(6, "Low",  TRUE,  150) >>

\* The demo registry with every object hidden: no bucket has a member.
HiddenRegistry ==
    [i \in 1..Len(DemoRegistry) |-> [DemoRegistry[i] EXCEPT !.visible = FALSE]]

\* A registry nothing was added to.
EmptyRegistry == << >>

\* A registry with two visible Low objects of the same footprint, added before
\* a larger one.
TiedRegistry ==
    << GovObject(0, "Low",    TRUE,  200),
       GovObject(1, "Low",    TRUE,  200),
       GovObject(2, "Low",    TRUE,  300),
       GovObject(3, "Normal", FALSE, 180),
       GovObject(4, "High",   TRUE,  100),
       GovObject(5, "High",   FALSE, 220) >>

Registry == [demo |-> DemoRegistry, wide |-> WideRegistry, hidden |-> HiddenRegistry,
             empty |-> EmptyRegistry, tied |-> TiedRegistry]
Registries == DOMAIN Registry

\* Answers of the driver to the free-memory query: an error, or a kB count.
HwKB == {0, 655871, 917504, 1048576, 1179648, 1441792, 1703936}
HwAnswers == {[err |-> TRUE, kb |-> 0]} \cup {[err |-> FALSE, kb |-> k] : k \in HwKB}

\* The readings of the end-to-end example: 1024, 700 and 1200 MB.
ExampleKB == {1048576, 716800, 1228800}
ExampleAnswers == {[err |-> FALSE, kb |-> k] : k \in ExampleKB}

\* Readings that all lie below target - hysteresis.
StarvedKB == {393216, 655871, 716800}
StarvedAnswers == {[err |-> FALSE, kb |-> k] : k \in StarvedKB}

\* Readings 128 MB apart, from above the band down to its lower edge.
DriftKB == {1441792, 1179648, 1048576, 917504}
DriftAnswers == {[err |-> FALSE, kb |-> k] : k \in DriftKB}

\* enum class TelMode
TelModes == {"NVX", "ATI", "FALLBACK"}

\* Telemetry::init outcomes, and the driver's answer to the dedicated-memory
\* query of main(): a 1280 MB total with NVX, an error without.
Modes == {"NVX", "FALLBACK"}
TotalAnswers(md) ==
    IF md = "NVX" THEN {[err |-> FALSE, kb |-> 1310720]} ELSE {[err |-> TRUE, kb |-> 0]}

\* Day 4: the extensions scanExtensionsOnce may find, the keys the loop polls
\* (at most one held per frame), the driver's answers to the free-memory query
\* (0 kB, 800 and 1160 MB) and the 1x1 mip of the metric texture:
\* not-a-number, or a value in hundredths: 2.0 (outside [0,1]), 0.35, 0.85.
Day4Exts == {"NVX", "ATI", "none"}
Day4Keys == {"none", "L", "K", "PERIOD", "COMMA", "RIGHT_BRACKET", "LEFT_BRACKET"}
Day4KB == {0, 819200, 1187840}
DensityValues == {200, 35, 85}
\* Inputs of a long run of the Day 4 program.
HeldKeys == {"none", "RIGHT_BRACKET", "LEFT_BRACKET"}
HeldKB == {0, 1572864}
HeldDensity == {[nan |-> FALSE, val |-> v] : v \in {35, 200}}
DensityReadings == {[nan |-> TRUE, val |-> 0]} \cup {[nan |-> FALSE, val |-> x] : x \in DensityValues}

VARIABLES
    day4,           \* the Day 4 program: locals of its main() and what its latest frame did
    day5,           \* the Day 5R program: its Governor's fields and what its latest handler did
    registry,       \* which registry Governor::objects was filled from
    bias,           \* GovObject::bias, by index into objects
    lastFreeMB,     \* Governor::lastFreeMB
    sinceEval,      \* now - Governor::lastEval at the end of the last frame
    globalNudge,    \* Governor::globalNudge
    mode,           \* Telemetry::mode
    useTelemetry,   \* Telemetry::useTelemetry
    fallbackBaseFreeMB, \* Telemetry::fallbackBaseFreeMB
    padBlocks,      \* Telemetry::padBlocks
    gPads,          \* gPads.size()
    lastMB,         \* TelWatchdog::lastMB
    noMoves,        \* TelWatchdog::noMoves
    lastCheck,      \* how the latest onAllocCheck judged its reading (observation only)
    ev,             \* what the latest handler did (observation only)
    stepsLeft       \* exploration horizon: handler invocations left, -1 = unlimited

vars == << day4, day5, registry, bias, lastFreeMB, sinceEval, globalNudge, mode, useTelemetry,
           fallbackBaseFreeMB, padBlocks, gPads, lastMB, noMoves, lastCheck, ev, stepsLeft >>

\* Governor::objects, the static fields of each GovObject
objects == Registry[registry]
Idx == 1..Len(objects)

\* ------------------------------------------------------------- telemetry
\* readFreeMB without the floor at 0.
readFreeMB_NoFloor(use, md, base, pb, hw) ==
    IF use /\ md \in {"NVX", "ATI"} /\ ~hw.err /\ hw.kb > 0
    THEN [valid |-> TRUE,  mb |-> hw.kb \div 1024]
    ELSE [valid |-> FALSE, mb |-> base - pb * PadMB]

\* readFreeMB that takes a reading of 0 kB for a hardware answer.
readFreeMB_AcceptsZero(use, md, base, pb, hw) ==
    IF use /\ md \in {"NVX", "ATI"} /\ ~hw.err /\ hw.kb >= 0
    THEN [valid |-> TRUE,  mb |-> hw.kb \div 1024]
    ELSE [valid |-> FALSE, mb |-> Max(0, base - pb * PadMB)]

\* Telemetry::readFreeMB with the driver's answer hw.
readFreeMB(use, md, base, pb, hw) ==
    IF use /\ md \in {"NVX", "ATI"} /\ ~hw.err /\ hw.kb > 0
    THEN [valid |-> TRUE,  mb |-> hw.kb \div 1024]
    ELSE [valid |-> FALSE, mb |-> Max(0, base - pb * PadMB)]

\* onAllocCheck that waits for a third stalled check.
onAllocCheck_ThreeStalls(r, lm, nm, use) ==
    IF ~r.valid THEN [lastMB |-> lm, noMoves |-> nm, use |-> use]
    ELSE IF lm < 0 THEN [lastMB |-> r.mb, noMoves |-> nm, use |-> use]
    ELSE IF lm - r.mb < WatchdogMinDropMB
         THEN [lastMB |-> r.mb, noMoves |-> nm + 1,
               use |-> IF nm + 1 >= 3 THEN FALSE ELSE use]
         ELSE [lastMB |-> r.mb, noMoves |-> 0, use |-> use]

\* onAllocCheck that judges its first sample against the initial lastMB = -1.
onAllocCheck_JudgesFirstSample(r, lm, nm, use) ==
    IF ~r.valid THEN [lastMB |-> lm, noMoves |-> nm, use |-> use]
    ELSE IF lm - r.mb < WatchdogMinDropMB
         THEN [lastMB |-> r.mb, noMoves |-> nm + 1,
               use |-> IF nm + 1 >= 2 THEN FALSE ELSE use]
         ELSE [lastMB |-> r.mb, noMoves |-> 0, use |-> use]

\* TelWatchdog::onAllocCheck on reading r; result: the watchdog fields and useTelemetry.
onAllocCheck(r, lm, nm, use) ==
    IF ~r.valid THEN [lastMB |-> lm, noMoves |-> nm, use |-> use]
    ELSE IF lm < 0 THEN [lastMB |-> r.mb, noMoves |-> nm, use |-> use]
    ELSE IF lm - r.mb < WatchdogMinDropMB
         THEN [lastMB |-> r.mb, noMoves |-> nm + 1,
               use |-> IF nm + 1 >= 2 THEN FALSE ELSE use]
         ELSE [lastMB |-> r.mb, noMoves |-> 0, use |-> use]

\* -------------------------------------------------------------- governor
\* Bucket membership that does not look at the visible flag.
BucketMembers_IgnoresVisible(objs, pr) ==
    {i \in 1..Len(objs) : objs[i].priority = pr}

\* Governor::rebuildBuckets: the visible objects of one priority, sorted by
\* estMB descending.  std::sort is not stable, so objects of equal estMB may
\* come out in either order.
BucketMembers(objs, pr) ==
    {i \in 1..Len(objs) : objs[i].visible /\ objs[i].priority = pr}

\* sortByEstMB with the comparison turned round: smallest footprint first.
RECURSIVE sortByEstMB_Ascending(_, _)
sortByEstMB_Ascending(objs, S) ==
    IF S = {} THEN { << >> }
    ELSE UNION { { << m >> \o t : t \in sortByEstMB_Ascending(objs, S \ {m}) } :
                 m \in {x \in S : \A y \in S : objs[x].estMB <= objs[y].estMB} }

\* The orders std::sort may leave the index set S in: estMB descending.
RECURSIVE sortByEstMB(_, _)
sortByEstMB(objs, S) ==
    IF S = {} THEN { << >> }
    ELSE UNION { { << m >> \o t : t \in sortByEstMB(objs, S \ {m}) } :
                 m \in {x \in S : \A y \in S : objs[x].estMB >= objs[y].estMB} }

rebuildBuckets(objs, pr) == sortByEstMB(objs, BucketMembers(objs, pr))

\* clampObj that forgets the upper limit.
clampObj_NoUpper(o, b) == IF b < o.biasMin THEN o.biasMin ELSE b

\* Governor::clampObj
clampObj(o, b) == Clamp(b, o.biasMin, o.biasMax)

\* applySteps that charges the budget for every object it visits.
RECURSIVE applyStepsFrom_CountsTries(_, _, _, _, _)
applyStepsFrom_CountsTries(objs, bucket, k, delta, st) ==
    IF k > Len(bucket) \/ st.budget <= 0 THEN st
    ELSE LET idx == bucket[k]
             old == st.bias[idx]
             new == clampObj(objs[idx], old + delta)
         IN applyStepsFrom_CountsTries(objs, bucket, k + 1, delta,
               [bias   |-> [st.bias EXCEPT ![idx] = new],
                budget |-> st.budget - 1,
                log    |-> Append(st.log, [idx |-> idx, d |-> delta, eff |-> new # old])])

\* Governor::applySteps over bucket from position k on; st = [bias, budget, log]
\* is the state the walk has reached (s: that state, worked out once).
RECURSIVE applyStepsFrom(_, _, _, _, _)
applyStepsFrom(objs, bucket, k, delta, st) ==
    The({ IF k > Len(bucket) \/ s.budget <= 0 THEN s
          ELSE LET idx == bucket[k]
                   old == s.bias[idx]
                   new == clampObj(objs[idx], old + delta)
               IN applyStepsFrom(objs, bucket, k + 1, delta,
                     [bias   |-> [s.bias EXCEPT ![idx] = new],
                      budget |-> IF new # old THEN s.budget - 1 ELSE s.budget,
                      log    |-> Append(s.log, [idx |-> idx, d |-> delta,
                                                eff |-> new # old])])
          : s \in {st} })

applySteps(objs, bucket, delta, st) == applyStepsFrom(objs, bucket, 1, delta, st)

\* spikeTourniquet that carries the spike step on into the Normal and High buckets.
spikeTourniquet_EveryTier(objs, bk, g) ==
    LET s0 == [bias |-> g.bias, budget |-> stepBudgetPerTick, log |-> g.log]
        s1 == applySteps(objs, bk.low,  stepSpike, s0)
        s2 == applySteps(objs, bk.norm, stepSpike, s1)
        s3 == applySteps(objs, bk.high, stepSpike, s2)
    IN [bias |-> s3.bias, log |-> s3.log]

\* Governor::spikeTourniquet; g = [bias, log], bk = the three buckets.
spikeTourniquet(objs, bk, g) ==
    LET r == applySteps(objs, bk.low, stepSpike,
                        [bias |-> g.bias, budget |-> stepBudgetPerTick, log |-> g.log])
    IN [bias |-> r.bias, log |-> r.log]

\* escalate that never reaches the High bucket.
escalate_StopsAtNormal(objs, bk, g) ==
    LET s0 == [bias |-> g.bias, budget |-> stepBudgetPerTick, log |-> g.log]
        s1 == applySteps(objs, bk.low,  stepGradual, s0)
        s2 == applySteps(objs, bk.norm, stepGradual, s1)
    IN [bias |-> s2.bias, log |-> s2.log]

\* Governor::escalate
escalate(objs, bk, g) ==
    LET s0 == [bias |-> g.bias, budget |-> stepBudgetPerTick, log |-> g.log]
        s1 == applySteps(objs, bk.low,  stepGradual, s0)
        s2 == applySteps(objs, bk.norm, stepGradual, s1)
        s3 == applySteps(objs, bk.high, stepGradual, s2)
    IN [bias |-> s3.bias, log |-> s3.log]

\* deescalate walking the buckets in escalation order.
deescalate_LowFirst(objs, bk, g) ==
    LET s0 == [bias |-> g.bias, budget |-> stepBudgetPerTick, log |-> g.log]
        s1 == applySteps(objs, bk.low,  -stepGradual, s0)
        s2 == applySteps(objs, bk.norm, -stepGradual, s1)
        s3 == applySteps(objs, bk.high, -stepGradual, s2)
    IN [bias |-> s3.bias, log |-> s3.log]

\* Governor::deescalate
deescalate(objs, bk, g) ==
    LET s0 == [bias |-> g.bias, budget |-> stepBudgetPerTick, log |-> g.log]
        s1 == applySteps(objs, bk.high, -stepGradual, s0)
        s2 == applySteps(objs, bk.norm, -stepGradual, s1)
        s3 == applySteps(objs, bk.low,  -stepGradual, s2)
    IN [bias |-> s3.bias, log |-> s3.log]

\* evaluateBody that escalates already at the lower edge of the band.
evaluateBody_BandEdge(objs, bk, b, freeMB, delta) ==
    LET g0 == [bias |-> b, log |-> << >>]
        g1 == IF delta <= -spikeThreshMB THEN spikeTourniquet(objs, bk, g0) ELSE g0
        lo == targetFreeMB - hysteresisMB
        hi == targetFreeMB + hysteresisMB
    IN IF freeMB <= lo THEN escalate(objs, bk, g1)
       ELSE IF freeMB > hi THEN deescalate(objs, bk, g1)
       ELSE g1

\* evaluateBody that runs the band check before the spike check.
evaluateBody_SpikeLast(objs, bk, b, freeMB, delta) ==
    LET g0 == [bias |-> b, log |-> << >>]
        lo == targetFreeMB - hysteresisMB
        hi == targetFreeMB + hysteresisMB
        g1 == IF freeMB < lo THEN escalate(objs, bk, g0)
              ELSE IF freeMB > hi THEN deescalate(objs, bk, g0)
              ELSE g0
    IN IF delta <= -spikeThreshMB THEN spikeTourniquet(objs, bk, g1) ELSE g1

\* The body of Governor::evaluate after the rate limiter: spike check, then band check.
evaluateBody(objs, bk, b, freeMB, delta) ==
    LET g0 == [bias |-> b, log |-> << >>]
        g1 == IF delta <= -spikeThreshMB THEN spikeTourniquet(objs, bk, g0) ELSE g0
        lo == targetFreeMB - hysteresisMB
        hi == targetFreeMB + hysteresisMB
    IN IF freeMB < lo THEN escalate(objs, bk, g1)
       ELSE IF freeMB > hi THEN deescalate(objs, bk, g1)
       ELSE g1

\* nudge that forgets the upper limit.
nudge_NoUpperLimit(g, d) == IF g + d < -NudgeLimit THEN -NudgeLimit ELSE g + d

\* Governor::nudge
nudge(g, d) == Clamp(g + d, -NudgeLimit, NudgeLimit)

\* ev.op     the handler: "init", a key ("B", "R", "C", "nudge") or what the frame's
\*           evaluate did ("first" = recorded only, "skip" = rate-limited, "eval")
\* ev.valid  the telValid argument of evaluate
\* ev.spike  the reading lay spikeThreshMB or more below the one of the last evaluation
\* ev.log    the steps the handler tried, in order: object, step, and whether the
\*           stored bias changed (reset: step 0 stands for the assignment bias = 0)
\* ev.due    evaluate found now - lastEval >= evalDt (frames past the first call)
\* ev.shift  the key event carried GLFW_MOD_SHIFT
\* ev.drawn  the uBias value drawObjectsGrid handed to the shader for each object
\* ev.hud    how the HUD code of the frame ended: "ok", or "fault" when it
\*           dereferenced an element the registry does not have
NoEv(op) == [op |-> op, valid |-> FALSE, spike |-> FALSE, log |-> << >>,
             due |-> FALSE, shift |-> FALSE, drawn |-> << >>, hud |-> "ok",
             read |-> -1, prev |-> -1, skips |-> 0]

\* A rate-limited evaluate that records the frame's reading before it returns.
onRateLimited_RecordsReading(last, freeMB) == freeMB

\* Governor::evaluate, the rate limiter's return: lastFreeMB after a tick that
\* read freeMB and was skipped.
onRateLimited(last, freeMB) == last

\* evaluate that never takes the first-call exit.
noBaseline_Never(last) == FALSE

\* Governor::evaluate, the first-call test: no reading has been recorded yet.
noBaseline(last) == last < 0

\* evaluate without rate limiter.
rateLimited_Never(since, dt) == FALSE

\* Governor::evaluate, the rate limiter: now - lastEval < evalDt.
rateLimited(since, dt) == since + dt < evalDt

\* drawQuadViewport that hands the stored bias alone to the shader.
drawQuadViewport_StoredBiasOnly(b, g) == b

\* drawQuadViewport: the value of the uBias uniform.
drawQuadViewport(b, g) == b + g

\* drawObjectsGrid: one draw per registered object.
drawObjectsGrid(objs, b, g) == [i \in 1..Len(objs) |-> drawQuadViewport(b[i], g)]

\* The HUD code of main() binds references to objects[0], objects[4] and
\* objects[5] and reads their bias: with fewer than six objects that is
\* undefined behaviour, which either goes unnoticed or ends the process.
HudOutcomes(objs) == IF Len(objs) > HudMaxIndex THEN {"ok"} ELSE {"ok", "fault"}

\* The process is still running.
Running == ev.hud # "fault"

\* What the watchdog could tell from reading r when its last sample was lm.
Judge(r, lm) ==
    IF ~r.valid THEN "invalid"
    ELSE IF lm < 0 THEN "first"
    ELSE IF lm - r.mb < WatchdogMinDropMB THEN "stall" ELSE "move"

\* main(): the fallback baseline seeded from the driver's answer q.
seedBaseline(q) ==
    IF ~q.err /\ q.kb > 0 THEN ((q.kb \div 1024) * 9) \div 10 ELSE DefaultBaseFreeMB

\* Exploration horizon, part of every action.
Count ==
    /\ stepsLeft # 0
    /\ stepsLeft' = IF stepsLeft > 0 THEN stepsLeft - 1 ELSE stepsLeft

\* ----------------------------------------------------------------- Day 4
\* queryVRAM_MB with the driver leaving kb in the queried integer (0 on error):
\* no error check, ok whenever an extension is present.
queryVRAM_MB(ext, kb) ==
    IF ext \in {"NVX", "ATI"} THEN [ok |-> TRUE,  freeMB |-> kb \div 1024]
                              ELSE [ok |-> FALSE, freeMB |-> -1]

\* main(): the initial VRAM headroom target.
initialTarget(v) ==
    IF v.ok /\ v.freeMB > 0 THEN Max(TargetMinMB, Min(v.freeMB, TargetMaxMB))
                            ELSE DefaultTargetMB

\* Controller 1), the free-memory controller: the step it adds to lodBias.
vramController(on, v, target) ==
    IF on /\ v.ok /\ v.freeMB >= 0
    THEN LET low  == target - bandMB
             high == target + bandMB
         IN IF v.freeMB < low THEN Min(rate, kp_vram * (low - v.freeMB))
            ELSE IF v.freeMB > high THEN -Min(rate, kp_vram * (v.freeMB - high))
            ELSE 0
    ELSE 0

Abs(x) == IF x < 0 THEN -x ELSE x

\* The density keeper that runs only when there is no VRAM telemetry.
densityKeeper_OnlyWithoutVram(on, v, avg) ==
    IF on /\ ~(v.ok /\ v.freeMB >= 0) /\ ~avg.nan /\ Abs(avg.val - targetDensity) > bandDensity
    THEN Clamp(kp_den * (avg.val - targetDensity), -(rate \div 2), rate \div 2)
    ELSE 0

\* Controller 2), the density keeper: the step it adds to lodBias.  With a
\* not-a-number reading the comparison fabs(err) > bandDensity is false.
densityKeeper(on, v, avg) ==
    IF on /\ ~avg.nan /\ Abs(avg.val - targetDensity) > bandDensity
    THEN Clamp(kp_den * (avg.val - targetDensity), -(rate \div 2), rate \div 2)
    ELSE 0

\* A final clamp with no upper limit.
clampLodBias_NoUpper(b) == Max(b, lodBiasMin)

\* The clamp of lodBias that ends every frame, just before the bias is handed
\* to the sampler.
clampLodBias(b) == Clamp(b, lodBiasMin, lodBiasMax)

\* ---------------------------------------------------------------- Day 5R
\* The three-bucket governor; b = [low, norm, high] are biasLow, biasNorm,
\* biasHigh.  Its thresholds, steps and evalDt are declared with the values of
\* the N-object governor.
\* Governor::clamp
Day5Clamp(b) == [low  |-> Clamp(b.low,  biasMin, biasMax),
                 norm |-> Clamp(b.norm, biasMin, biasMax),
                 high |-> Clamp(b.high, biasMin, biasMax)]

\* escalate that raises every tier below biasMax.
Day5Escalate_EveryTier(b) ==
    Day5Clamp([low |-> b.low + stepGradual, norm |-> b.norm + stepGradual,
               high |-> b.high + stepGradual])

\* Governor::escalate
Day5Escalate(b) ==
    Day5Clamp(IF b.low < biasMax THEN [b EXCEPT !.low = @ + stepGradual]
              ELSE IF b.norm < biasMax THEN [b EXCEPT !.norm = @ + stepGradual]
              ELSE IF b.high < biasMax THEN [b EXCEPT !.high = @ + stepGradual]
              ELSE b)

\* Governor::deescalate
Day5Deescalate(b) ==
    Day5Clamp(IF b.high > biasMin THEN [b EXCEPT !.high = @ - stepGradual]
              ELSE IF b.norm > biasMin THEN [b EXCEPT !.norm = @ - stepGradual]
              ELSE IF b.low > biasMin THEN [b EXCEPT !.low = @ - stepGradual]
              ELSE b)

\* Governor::spike
Day5Spike(b) == Day5Clamp([b EXCEPT !.low = @ + stepSpike])

\* Governor::evaluate past the rate limiter: the spike test, then the band test.
Day5EvaluateBody(b, freeMB, delta) ==
    LET s == IF delta <= -spikeThreshMB THEN Day5Spike(b) ELSE b
    IN IF freeMB < targetFreeMB - hysteresisMB THEN Day5Escalate(s)
       ELSE IF freeMB > targetFreeMB + hysteresisMB THEN Day5Deescalate(s)
       ELSE s

\* The Governor of Day 5R as constructed; op and spike tell what its latest
\* handler did (observation only).
Day5Start ==
    [biasLow |-> 0, biasNorm |-> 0, biasHigh |-> 0, lastFreeMB |-> -1, sinceEval |-> 0,
     op |-> "init", spike |-> FALSE]

\* The Day 5R program is not the one running.
Day5NotStarted == [Day5Start EXCEPT !.op = "none"]

\* The locals of main() before the loop, the extensions and the first answer
\* given; viaVram and viaDensity are the steps the two controllers added in the
\* latest frame, ran tells that a frame has run (observation only).
Day4Start(ext, kb) ==
    LET v == queryVRAM_MB(ext, kb)
    IN [ext |-> ext, lodBias |-> 0, governorOn |-> TRUE,
        targetFreeMB |-> initialTarget(v), vramOK |-> v.ok, freeMB |-> v.freeMB,
        avgDensity |-> [nan |-> FALSE, val |-> 0], viaVram |-> 0, viaDensity |-> 0,
        ran |-> FALSE]

\* The Day 4 program is not the one running.
Day4NotStarted == Day4Start("none", 0)

\* ------------------------------------------------------------------ Init
\* main() up to the loop: Telemetry::init, the fallback baseline, the registry.
SetupAt(regs, horizon, nudges) ==
    /\ day4 = Day4NotStarted
    /\ day5 = Day5NotStarted
    /\ stepsLeft = horizon
    /\ registry \in regs
    /\ bias = [i \in 1..Len(objects) |-> 0]
    /\ lastFreeMB = -1
    /\ sinceEval = 0
    /\ globalNudge \in nudges
    /\ mode \in Modes
    /\ useTelemetry = TRUE
    /\ fallbackBaseFreeMB \in {seedBaseline(q) : q \in TotalAnswers(mode)}
    /\ padBlocks = 0
    /\ gPads = 0
    /\ lastMB = -1
    /\ noMoves = 0
    /\ lastCheck = "none"
    /\ ev = NoEv("init")

Setup(regs, horizon) == SetupAt(regs, horizon, {0})

\* The program as main() starts it.
Init == Setup({"demo"}, MaxSteps)
\* The governor on working hardware, over the registries of interest.
InitGov == Setup({"demo", "wide"}, -1) /\ mode = "NVX"
\* Telemetry, watchdog and pads, with a registry that leaves evaluate nothing to step.
InitTel == Setup({"hidden"}, -1)

\* --------------------------------------------------------------- actions
\* One iteration of the main loop with the driver answering from answers and
\* the clock advancing by one of dts: readFreeMB, glfwGetTime,
\* Governor::evaluate, drawObjectsGrid, HUD.  With timed, the frame also notes
\* its reading, and an executed tick the rate-limited frames before it.
FrameObs(answers, dts, timed) ==
    \E dt \in dts, hw \in answers, hud \in HudOutcomes(objects) :
    \E bl \in rebuildBuckets(objects, "Low"),
       bn \in rebuildBuckets(objects, "Normal"),
       bh \in rebuildBuckets(objects, "High") :
      LET r == readFreeMB(useTelemetry, mode, fallbackBaseFreeMB, padBlocks, hw)
          freeMB == r.mb
          bk == [low |-> bl, norm |-> bn, high |-> bh]
          delta == freeMB - lastFreeMB
          g == evaluateBody(objects, bk, bias, freeMB, delta)
          skipped == IF timed /\ ev.op = "skip" THEN ev.skips ELSE 0
          seen(op, b) == [NoEv(op) EXCEPT !.valid = r.valid,
                                          !.drawn = drawObjectsGrid(objects, b, globalNudge),
                                          !.hud = hud,
                                          !.read = IF timed THEN freeMB ELSE -1]
      IN /\ IF noBaseline(lastFreeMB)
            THEN /\ lastFreeMB' = freeMB
                 /\ sinceEval' = 0
                 /\ ev' = seen("first", bias)
                 /\ UNCHANGED bias
            ELSE IF rateLimited(sinceEval, dt)
            THEN /\ sinceEval' = sinceEval + dt
                 /\ lastFreeMB' = onRateLimited(lastFreeMB, freeMB)
                 /\ ev' = [seen("skip", bias) EXCEPT
                              !.due = (sinceEval + dt >= evalDt),
                              !.skips = IF timed THEN Min(skipped + 1, MaxSkips) ELSE 0]
                 /\ UNCHANGED bias
            ELSE /\ sinceEval' = 0
                 /\ lastFreeMB' = freeMB
                 /\ bias' = g.bias
                 /\ ev' = [seen("eval", g.bias) EXCEPT
                              !.due = (sinceEval + dt >= evalDt),
                              !.spike = (freeMB - lastFreeMB <= -spikeThreshMB),
                              !.log = g.log,
                              !.prev = IF skipped > 0 THEN ev.read ELSE -1,
                              !.skips = skipped]
         /\ Running
         /\ Count
         /\ UNCHANGED << day4, day5, registry, globalNudge, mode, useTelemetry, fallbackBaseFreeMB,
                         padBlocks, gPads, lastMB, noMoves, lastCheck >>

\* The frame with the clock advancing by at least one time unit.
FrameWith(answers) == FrameObs(answers, 1..MaxDt, FALSE)

\* The frame with any answer of the driver.
Frame == FrameWith(HwAnswers)

\* The frame with the readings of the end-to-end example.
FrameExample == FrameWith(ExampleAnswers)

\* The frame with free memory staying below the band.
FrameStarved == FrameWith(StarvedAnswers)

\* The frame at any frame rate (several frames within one time unit), with a
\* reading that sinks or rises slowly.
FrameSlowDrift == FrameObs(DriftAnswers, 0..MaxDt, TRUE)

\* Allocation that copies gPads.size() into padBlocks before the new pad is pushed.
KeyB_StalePadBlocks ==
    \E shift \in BOOLEAN, hw \in HwAnswers :
      LET r == readFreeMB(useTelemetry, mode, fallbackBaseFreeMB, gPads, hw)
          w == onAllocCheck(r, lastMB, noMoves, useTelemetry)
      IN /\ gPads < MaxPads
         /\ w.noMoves <= MaxNoMoves
         /\ gPads' = gPads + 1
         /\ padBlocks' = gPads
         /\ lastMB' = w.lastMB
         /\ noMoves' = w.noMoves
         /\ useTelemetry' = w.use
         /\ lastCheck' = Judge(r, lastMB)
         /\ ev' = [NoEv("B") EXCEPT !.shift = shift]
         /\ Running
         /\ Count
         /\ UNCHANGED << day4, day5, registry, bias, lastFreeMB, sinceEval, globalNudge, mode,
                         fallbackBaseFreeMB >>

\* keyCB, case GLFW_KEY_B (taken whatever the modifier keys are).
KeyB ==
    \E shift \in BOOLEAN, hw \in HwAnswers :
      LET r == readFreeMB(useTelemetry, mode, fallbackBaseFreeMB, gPads + 1, hw)
          w == onAllocCheck(r, lastMB, noMoves, useTelemetry)
      IN /\ gPads < MaxPads
         /\ w.noMoves <= MaxNoMoves
         /\ gPads' = gPads + 1
         /\ padBlocks' = gPads + 1
         /\ lastMB' = w.lastMB
         /\ noMoves' = w.noMoves
         /\ useTelemetry' = w.use
         /\ lastCheck' = Judge(r, lastMB)
         /\ ev' = [NoEv("B") EXCEPT !.shift = shift]
         /\ Running
         /\ Count
         /\ UNCHANGED << day4, day5, registry, bias, lastFreeMB, sinceEval, globalNudge, mode,
                         fallbackBaseFreeMB >>

\* Reset that also switches hardware telemetry back on.
KeyR_ReenablesTelemetry ==
    /\ gPads' = 0
    /\ padBlocks' = 0
    /\ bias' = [i \in Idx |-> 0]
    /\ useTelemetry' = TRUE
    /\ ev' = [NoEv("R") EXCEPT
                 !.log = [i \in Idx |-> [idx |-> i, d |-> 0, eff |-> bias[i] # 0]]]
    /\ Running
    /\ Count
    /\ UNCHANGED << day4, day5, registry, lastFreeMB, sinceEval, globalNudge, mode,
                    fallbackBaseFreeMB, lastMB, noMoves, lastCheck >>

\* Reset that frees the pads but leaves Telemetry::padBlocks alone.
KeyR_KeepsPadBlocks ==
    /\ gPads' = 0
    /\ bias' = [i \in Idx |-> 0]
    /\ ev' = [NoEv("R") EXCEPT
                 !.log = [i \in Idx |-> [idx |-> i, d |-> 0, eff |-> bias[i] # 0]]]
    /\ Running
    /\ Count
    /\ UNCHANGED << day4, day5, registry, lastFreeMB, sinceEval, globalNudge, mode, useTelemetry,
                    fallbackBaseFreeMB, padBlocks, lastMB, noMoves, lastCheck >>

\* keyCB, case GLFW_KEY_R.
KeyR ==
    /\ gPads' = 0
    /\ padBlocks' = 0
    /\ bias' = [i \in Idx |-> 0]
    /\ ev' = [NoEv("R") EXCEPT
                 !.log = [i \in Idx |-> [idx |-> i, d |-> 0, eff |-> bias[i] # 0]]]
    /\ Running
    /\ Count
    /\ UNCHANGED << day4, day5, registry, lastFreeMB, sinceEval, globalNudge, mode, useTelemetry,
                    fallbackBaseFreeMB, lastMB, noMoves, lastCheck >>

\* Toggle that also clears the watchdog's stall counter.
KeyC_ResetsWatchdog ==
    /\ useTelemetry' = ~useTelemetry
    /\ noMoves' = 0
    /\ ev' = NoEv("C")
    /\ Running
    /\ Count
    /\ UNCHANGED << day4, day5, registry, bias, lastFreeMB, sinceEval, globalNudge, mode,
                    fallbackBaseFreeMB, padBlocks, gPads, lastMB, lastCheck >>

\* keyCB, case GLFW_KEY_C.
KeyC ==
    /\ useTelemetry' = ~useTelemetry
    /\ ev' = NoEv("C")
    /\ Running
    /\ Count
    /\ UNCHANGED << day4, day5, registry, bias, lastFreeMB, sinceEval, globalNudge, mode,
                    fallbackBaseFreeMB, padBlocks, gPads, lastMB, noMoves, lastCheck >>

\* The nudge values the operator asks for: within MaxNudge of 0, or from
\* NudgeLimit - MaxNudge outwards (a bracket key held down until the limit).
NearHeldValue(g) ==
    \/ -MaxNudge <= g /\ g <= MaxNudge
    \/ g >= NudgeLimit - MaxNudge
    \/ g <= -(NudgeLimit - MaxNudge)

\* keyCB, cases GLFW_KEY_LEFT_BRACKET and GLFW_KEY_RIGHT_BRACKET.
KeyBracket ==
    \E d \in {-NudgeStep, NudgeStep} :
      /\ globalNudge' = nudge(globalNudge, d)
      /\ NearHeldValue(globalNudge + d)
      /\ ev' = NoEv("nudge")
      /\ Running
      /\ Count
      /\ UNCHANGED << day4, day5, registry, bias, lastFreeMB, sinceEval, mode, useTelemetry,
                      fallbackBaseFreeMB, padBlocks, gPads, lastMB, noMoves, lastCheck >>

\* Day 4, one iteration of the main loop: key polling, the density readback,
\* queryVRAM_MB, both controllers, the final clamp of lodBias.  The key, the
\* driver's answer and the density reading of the frame come from keys, kbs, avgs.
Day4FrameWith(keys, kbs, avgs) ==
    \E key \in keys, kb \in kbs, avg \in avgs :
      LET on  == IF key = "L" THEN TRUE ELSE IF key = "K" THEN FALSE ELSE day4.governorOn
          tgt == IF key = "PERIOD" THEN day4.targetFreeMB + TargetStepMB
                 ELSE IF key = "COMMA" THEN Max(TargetFloorMB, day4.targetFreeMB - TargetStepMB)
                 ELSE day4.targetFreeMB
          b0  == IF key = "RIGHT_BRACKET" THEN day4.lodBias + KeyBiasStep
                 ELSE IF key = "LEFT_BRACKET" THEN day4.lodBias - KeyBiasStep
                 ELSE day4.lodBias
          v   == queryVRAM_MB(day4.ext, kb)
          s1  == vramController(on, v, tgt)
          s2  == densityKeeper(on, v, avg)
      IN /\ day4' = [ext |-> day4.ext,
                     lodBias |-> clampLodBias(b0 + s1 + s2),
                     governorOn |-> on, targetFreeMB |-> tgt,
                     vramOK |-> v.ok, freeMB |-> v.freeMB, avgDensity |-> avg,
                     viaVram |-> s1, viaDensity |-> s2, ran |-> TRUE]
         /\ Count
         /\ UNCHANGED << day5, registry, bias, lastFreeMB, sinceEval, globalNudge, mode,
                         useTelemetry, fallbackBaseFreeMB, padBlocks, gPads, lastMB,
                         noMoves, lastCheck, ev >>

\* The Day 4 frame with any key, answer and density reading.
Day4Frame == Day4FrameWith(Day4Keys, Day4KB, DensityReadings)

\* The Day 4 frame of a long run: a bias key held or none, free memory
\* exhausted or plentiful, density on target or far above it.
Day4FrameHeld == Day4FrameWith(HeldKeys, HeldKB, HeldDensity)

\* Day 5R, one iteration of the main loop: readFreeMB (the same code as Day 6's),
\* glfwGetTime, Governor::evaluate.
Day5Frame ==
    \E dt \in 1..MaxDt, hw \in HwAnswers :
      LET r == readFreeMB(useTelemetry, mode, fallbackBaseFreeMB, padBlocks, hw)
          freeMB == r.mb
          delta == freeMB - day5.lastFreeMB
          g == Day5EvaluateBody([low |-> day5.biasLow, norm |-> day5.biasNorm,
                                 high |-> day5.biasHigh], freeMB, delta)
      IN /\ day5.op # "none"
         /\ day5' = IF day5.lastFreeMB < 0
                    THEN [day5 EXCEPT !.lastFreeMB = freeMB, !.sinceEval = 0,
                                      !.op = "first", !.spike = FALSE]
                    ELSE IF day5.sinceEval + dt < evalDt
                    THEN [day5 EXCEPT !.sinceEval = @ + dt, !.op = "skip", !.spike = FALSE]
                    ELSE [biasLow |-> g.low, biasNorm |-> g.norm, biasHigh |-> g.high,
                          lastFreeMB |-> freeMB, sinceEval |-> 0, op |-> "eval",
                          spike |-> (delta <= -spikeThreshMB)]
         /\ Count
         /\ UNCHANGED << day4, registry, bias, lastFreeMB, sinceEval, globalNudge, mode,
                         useTelemetry, fallbackBaseFreeMB, padBlocks, gPads, lastMB,
                         noMoves, lastCheck, ev >>

\* Day 5R keyCB, case GLFW_KEY_R: the pads are freed and Governor::reset runs.
Day5KeyR ==
    /\ day5.op # "none"
    /\ day5' = [day5 EXCEPT !.biasLow = 0, !.biasNorm = 0, !.biasHigh = 0,
                            !.lastFreeMB = -1, !.op = "R", !.spike = FALSE]
    /\ gPads' = 0
    /\ padBlocks' = 0
    /\ Count
    /\ UNCHANGED << day4, registry, bias, lastFreeMB, sinceEval, globalNudge, mode,
                    useTelemetry, fallbackBaseFreeMB, lastMB, noMoves, lastCheck, ev >>

Next == Frame \/ KeyB \/ KeyR \/ KeyC \/ KeyBracket

Spec == Init /\ [][Next]_vars

NextGov == Frame \/ KeyR
SpecGov == InitGov /\ [][NextGov]_vars

NextTel == Frame \/ KeyB \/ KeyR \/ KeyC
SpecTel == InitTel /\ [][NextTel]_vars

\* Telemetry, watchdog and pads under every operation, without horizon.
SpecOps == InitTel /\ [][Next]_vars

\* The end-to-end example: the demo registry on working hardware, the driver
\* answering 1024, 700 or 1200 MB.
InitExample == Setup({"demo"}, -1) /\ mode = "NVX"
NextExample == FrameExample \/ KeyR
SpecExample == InitExample /\ [][NextExample]_vars

\* The operator's nudge: the demo registry on working hardware, a bracket key
\* possibly held down during start-up.
NudgeStarts == {0, NudgeLimit - MaxNudge, -(NudgeLimit - MaxNudge)}
InitNudge == SetupAt({"demo"}, MaxSteps, NudgeStarts) /\ mode = "NVX"
NextNudge == Frame \/ KeyBracket \/ KeyR
SpecNudge == InitNudge /\ [][NextNudge]_vars

\* The Day 4 program alone, for MaxFrames loop iterations.
InitDay4 ==
    /\ day4 \in {Day4Start(ext, kb) : ext \in Day4Exts, kb \in Day4KB}
    /\ day5 = Day5NotStarted
    /\ stepsLeft = MaxFrames
    /\ registry = "empty"
    /\ bias = << >>
    /\ lastFreeMB = -1
    /\ sinceEval = 0
    /\ globalNudge = 0
    /\ mode = "FALLBACK"
    /\ useTelemetry = TRUE
    /\ fallbackBaseFreeMB = DefaultBaseFreeMB
    /\ padBlocks = 0
    /\ gPads = 0
    /\ lastMB = -1
    /\ noMoves = 0
    /\ lastCheck = "none"
    /\ ev = NoEv("init")
NextDay4 == Day4Frame
SpecDay4 == InitDay4 /\ [][NextDay4]_vars

\* The Day 5R program on working hardware.
InitDay5 ==
    /\ day5 = Day5Start
    /\ day4 = Day4NotStarted
    /\ stepsLeft = -1
    /\ registry = "empty"
    /\ bias = << >>
    /\ lastFreeMB = -1
    /\ sinceEval = 0
    /\ globalNudge = 0
    /\ mode = "NVX"
    /\ useTelemetry = TRUE
    /\ fallbackBaseFreeMB \in {seedBaseline(q) : q \in TotalAnswers("NVX")}
    /\ padBlocks = 0
    /\ gPads = 0
    /\ lastMB = -1
    /\ noMoves = 0
    /\ lastCheck = "none"
    /\ ev = NoEv("init")
NextDay5 == Day5Frame \/ Day5KeyR
SpecDay5 == InitDay5 /\ [][NextDay5]_vars

\* The Day 4 program left running for any number of frames.
InitDay4Held ==
    /\ day4 \in {Day4Start(ext, kb) : ext \in Day4Exts, kb \in HeldKB}
    /\ day5 = Day5NotStarted
    /\ stepsLeft = -1
    /\ registry = "empty"
    /\ bias = << >>
    /\ lastFreeMB = -1
    /\ sinceEval = 0
    /\ globalNudge = 0
    /\ mode = "FALLBACK"
    /\ useTelemetry = TRUE
    /\ fallbackBaseFreeMB = DefaultBaseFreeMB
    /\ padBlocks = 0
    /\ gPads = 0
    /\ lastMB = -1
    /\ noMoves = 0
    /\ lastCheck = "none"
    /\ ev = NoEv("init")
NextDay4Held == Day4FrameHeld
SpecDay4Held == InitDay4Held /\ [][NextDay4Held]_vars

\* Registries that give evaluate nothing to step: none registered, none visible.
InitEmpty == Setup({"empty", "hidden"}, -1)
SpecEmpty == InitEmpty /\ [][NextGov]_vars

\* The governor at full frame rate under a slowly drifting reading.
InitDrift == Setup({"demo"}, -1) /\ mode = "NVX"
NextDrift == FrameSlowDrift
SpecDrift == InitDrift /\ [][NextDrift]_vars

\* The governor under lasting memory pressure.  The main loop never stops
\* iterating and its clock advances, so frames keep being taken.
InitStarved == Setup({"demo", "wide"}, -1) /\ mode = "NVX"
NextStarved == FrameStarved
SpecStarved == InitStarved /\ [][NextStarved]_vars /\ WF_vars(FrameStarved)

\* The governor over a registry with a tie in estMB.
InitTied == Setup({"tied"}, -1) /\ mode = "NVX"
SpecTied == InitTied /\ [][NextGov]_vars

\* ================================================================ claims
Lo == targetFreeMB - hysteresisMB
Hi == targetFreeMB + hysteresisMB
Rank(i) == CASE objects[i].priority = "Low"    -> 0
             [] objects[i].priority = "Normal" -> 1
             [] objects[i].priority = "High"   -> 2
Tried == DOMAIN ev.log
Changed == {ev.log[k].idx : k \in {j \in Tried : ev.log[j].eff}}

\* C1: every managed object keeps biasMin <= bias <= biasMax, whatever ticks and
\* resets have run.
C1_BiasWithinBounds ==
    \A i \in Idx : objects[i].biasMin <= bias[i] /\ bias[i] <= objects[i].biasMax

\* An upward step was tried on an object sitting at biasMax and left it there.
C1_ClampAtMax ==
    /\ ev.op = "eval"
    /\ \E k \in Tried : /\ ev.log[k].d > 0
                        /\ ~ev.log[k].eff
                        /\ bias[ev.log[k].idx] = objects[ev.log[k].idx].biasMax

\* C2: in one executed tick, the objects whose bias changed (spike step and
\* escalation or de-escalation step together) number at most stepBudgetPerTick.
C2_ChangesWithinBudget ==
    ev.op = "eval" => Cardinality(Changed) <= stepBudgetPerTick

\* C3: an executed tick whose reading lies in [lo, hi], edges included, and whose
\* spike condition did not fire changes no bias.
C3_DeadbandNoChange ==
    [][ (ev'.op = "eval" /\ ~ev'.spike /\ Lo <= lastFreeMB' /\ lastFreeMB' <= Hi)
        => bias' = bias ]_vars

\* A tick at the lower edge of the band, without spike, with a bias that could move.
C3_TickAtBandEdge ==
    /\ ev.op = "eval" /\ ~ev.spike /\ lastFreeMB = Lo
    /\ \E i \in Idx : objects[i].visible /\ 0 < bias[i] /\ bias[i] < objects[i].biasMax

SpikeSteps == {k \in Tried : ev.log[k].d = stepSpike}

\* C4: when the reading dropped by spikeThreshMB or more, the spike steps come
\* first: they hit Low objects only, every one of them precedes every step on a
\* Normal or High object, and every Low-bucket object got one unless the budget
\* ran out.
C4_SpikeBeforeOthers ==
    (ev.op = "eval" /\ ev.spike) =>
        /\ \A k \in SpikeSteps : objects[ev.log[k].idx].priority = "Low"
        /\ \A k \in SpikeSteps : \A j \in Tried :
              Rank(ev.log[j].idx) > 0 => k < j
        /\ \A i \in BucketMembers(objects, "Low") :
              \/ \E k \in SpikeSteps : ev.log[k].idx = i
              \/ Cardinality({k \in SpikeSteps : ev.log[k].eff}) >= stepBudgetPerTick

\* A spike tick that raised a Low object and afterwards changed a Normal or High one.
C4_SpikeThenOthers ==
    /\ ev.op = "eval" /\ ev.spike
    /\ \E k \in SpikeSteps : ev.log[k].eff
    /\ \E j \in Tried : Rank(ev.log[j].idx) > 0 /\ ev.log[j].eff

\* C5: in a de-escalation tick a downward step on an object comes only after the
\* downward step has been tried on every visible object of a higher priority:
\* High before Normal before Low.
C5_DeescalateHighFirst ==
    (ev.op = "eval" /\ lastFreeMB > Hi) =>
        \A k \in Tried : ev.log[k].d = -stepGradual =>
            \A h \in Idx : (objects[h].visible /\ Rank(h) > Rank(ev.log[k].idx)) =>
                \E j \in 1..(k - 1) : ev.log[j].idx = h /\ ev.log[j].d = -stepGradual

\* A de-escalation tick that lowered a Low object after trying High and Normal ones.
C5_LowLoweredLast ==
    /\ ev.op = "eval" /\ lastFreeMB > Hi
    /\ \E k \in Tried : /\ ev.log[k].d = -stepGradual /\ ev.log[k].eff
                        /\ Rank(ev.log[k].idx) = 0
                        /\ \E h \in Idx : objects[h].visible /\ Rank(h) = 2
                        /\ \E n \in Idx : objects[n].visible /\ Rank(n) = 1

\* m is stepped before n in an escalation: lower priority, or same priority and
\* larger footprint.
EscalatesBefore(m, n) ==
    \/ Rank(m) < Rank(n)
    \/ Rank(m) = Rank(n) /\ objects[m].estMB > objects[n].estMB

\* C6: in an escalation tick an object is raised by the gradual step only if every
\* visible object of a lower priority, and every visible object of its own
\* priority with a larger footprint, was raised earlier in the tick or sits at
\* biasMax.
C6_EscalateLowAndLargeFirst ==
    (ev.op = "eval" /\ lastFreeMB < Lo) =>
        \A k \in Tried : (ev.log[k].d = stepGradual /\ ev.log[k].eff) =>
            \A m \in Idx : (objects[m].visible /\ EscalatesBefore(m, ev.log[k].idx)) =>
                \/ \E j \in 1..(k - 1) :
                      ev.log[j].idx = m /\ ev.log[j].d > 0 /\ ev.log[j].eff
                \/ bias[m] = objects[m].biasMax

\* An escalation tick whose budget ran out inside the Low tier: some Low objects
\* were raised, a visible Low object of smaller footprint was not even tried.
C6_BudgetEndsInsideTier ==
    /\ ev.op = "eval" /\ lastFreeMB < Lo
    /\ \E k \in Tried : ev.log[k].d = stepGradual /\ ev.log[k].eff
    /\ \E i \in BucketMembers(objects, "Low") :
          /\ \A k \in Tried : ev.log[k].idx # i
          /\ \E k \in Tried : objects[ev.log[k].idx].estMB > objects[i].estMB

\* C7: an allocation event whose check stalls (drop below 128 MB) right after an
\* allocation event whose check stalled leaves hardware telemetry disabled, and
\* no allocation event switches disabled telemetry back on.
C7_TwoStallsDisable ==
    [][ gPads' = gPads + 1 =>
          /\ (lastCheck = "stall" /\ lastCheck' = "stall") => ~useTelemetry'
          /\ ~useTelemetry => ~useTelemetry' ]_vars

\* The second stalled check in a row has just switched telemetry off.
C7_SecondStall ==
    ev.op = "B" /\ lastCheck = "stall" /\ noMoves = 2 /\ ~useTelemetry

\* C8: useTelemetry goes from false to true only in the operator's toggle (key C).
C8_OnlyToggleReenables ==
    [][ (~useTelemetry /\ useTelemetry') => ev'.op = "C" ]_vars

\* The operator has switched telemetry back on after the watchdog had disabled it.
C8_ReenabledByOperator ==
    ev.op = "C" /\ useTelemetry /\ noMoves >= 2

\* C9 as claimed: reset zeroes every bias and returns the pad counter and the
\* watchdog (lastMB = -1, noMoves = 0) to their initial values.
C9_ResetRestoresWatchdog ==
    [][ ev'.op = "R" =>
          /\ \A i \in Idx : bias'[i] = 0
          /\ gPads' = 0 /\ padBlocks' = 0
          /\ lastMB' = -1 /\ noMoves' = 0 ]_vars

\* C9 as amended: reset zeroes every bias and the pad counter and leaves the
\* watchdog as it was; a reset right after a reset changes nothing.
C9_ResetClearsBiasAndPads ==
    [][ ev'.op = "R" =>
          /\ \A i \in Idx : bias'[i] = 0
          /\ gPads' = 0 /\ padBlocks' = 0
          /\ UNCHANGED << lastMB, noMoves >>
          /\ ev.op = "R" =>
                UNCHANGED << day4, day5, registry, bias, lastFreeMB, sinceEval, globalNudge, mode,
                             useTelemetry, fallbackBaseFreeMB, padBlocks, gPads,
                             lastMB, noMoves, lastCheck >> ]_vars

\* A reset that zeroed a moved bias while the watchdog held a sample and a stall.
C9_ResetAfterActivity ==
    /\ ev.op = "R"
    /\ \E k \in Tried : ev.log[k].eff
    /\ lastMB >= 0 /\ noMoves >= 1

\* The estimate readFreeMB gives for p pads when the hardware gives nothing.
Estimate(p) ==
    readFreeMB(useTelemetry, mode, fallbackBaseFreeMB, p, [err |-> TRUE, kb |-> 0]).mb

\* C10: a fallback reading equals max(0, fallbackBaseFreeMB - padBlocks*256); the
\* estimate is never negative and does not grow with the number of pads.
C10_FallbackEstimate ==
    /\ (ev.op \in {"first", "eval"} /\ ~ev.valid) =>
          lastFreeMB = IF fallbackBaseFreeMB - padBlocks * 256 > 0
                       THEN fallbackBaseFreeMB - padBlocks * 256 ELSE 0
    /\ \A p \in 0..MaxPads : Estimate(p) >= 0 /\ Estimate(p + 1) <= Estimate(p)

\* A fallback reading taken with more pads than the baseline holds: the floor at 0.
C10_EstimateAtFloor ==
    /\ ev.op \in {"first", "eval"} /\ ~ev.valid
    /\ padBlocks * 256 > fallbackBaseFreeMB
    /\ lastFreeMB = 0

\* ------------------------------------------------------- claims C11 - C20
FrameOps == {"first", "skip", "eval"}
Supported(md) == md \in {"NVX", "ATI"}
FallbackMB == IF fallbackBaseFreeMB - padBlocks * 256 > 0
              THEN fallbackBaseFreeMB - padBlocks * 256 ELSE 0

\* C11: readFreeMB answers (true, hardware MB) exactly when telemetry is enabled,
\* the mode is NVX or ATI and the driver answers without error with a positive
\* count; in every other case it answers (false, fallback estimate).  A frame
\* that evaluate saw as valid was read with telemetry enabled and supported, and a
\* frame seen as invalid recorded the fallback estimate.
C11_ValidIffHardwareAnswers ==
    /\ \A use \in BOOLEAN, md \in TelModes, hw \in HwAnswers :
          LET r  == readFreeMB(use, md, fallbackBaseFreeMB, padBlocks, hw)
              ok == use /\ Supported(md) /\ ~hw.err /\ hw.kb > 0
          IN /\ r.valid \in BOOLEAN /\ r.mb \in Nat
             /\ r.valid <=> ok
             /\ ok => r.mb = hw.kb \div 1024
             /\ ~ok => r.mb = FallbackMB
    /\ (ev.op \in FrameOps /\ ev.valid) => (useTelemetry /\ Supported(mode))
    /\ (ev.op \in {"first", "eval"} /\ ~ev.valid) => lastFreeMB = FallbackMB
    /\ (ev.op \in {"first", "eval"} /\ ev.valid) =>
          \E hw \in HwAnswers : ~hw.err /\ hw.kb > 0 /\ lastFreeMB = hw.kb \div 1024

\* Telemetry is enabled and supported, pads are committed, and the driver failed
\* to answer: the frame recorded the fallback estimate.
C11_DriverFailsWhileEnabled ==
    /\ ev.op \in {"first", "eval"} /\ ~ev.valid
    /\ useTelemetry /\ Supported(mode) /\ padBlocks > 0
    /\ lastFreeMB = fallbackBaseFreeMB - padBlocks * 256

\* C12: a frame whose evaluate call arrives less than evalDt after the last
\* executed evaluation changes no bias and leaves lastFreeMB and lastEval alone
\* (the time since the last evaluation keeps growing); a frame that changes a
\* bias or records a reading arrives at least evalDt after the previous one.
C12_RateLimitedTickIsNoOp ==
    [][ (ev'.op \in FrameOps /\ lastFreeMB >= 0) =>
          /\ ~ev'.due => /\ bias' = bias
                         /\ lastFreeMB' = lastFreeMB
                         /\ sinceEval' > sinceEval
          /\ (bias' # bias \/ sinceEval' = 0) => ev'.due ]_vars

\* A rate-limited frame while the last reading is below the band and a bias could
\* still be raised: an executed tick would have escalated.
C12_SkippedBelowBand ==
    /\ ev.op = "skip" /\ ~ev.due
    /\ lastFreeMB < Lo
    /\ \E i \in Idx : objects[i].visible /\ bias[i] < objects[i].biasMax

GradualSteps == {k \in Tried : ev.log[k].d \in {stepGradual, -stepGradual}}
Effective(S) == {k \in S : ev.log[k].eff}
AllZero == \A i \in Idx : bias[i] = 0

\* C13: the end-to-end example on the demo registry.  A tick reading 1024 changes
\* no bias; from all biases 0 and last reading 1024, the tick reading 700 raises
\* each Low object by the spike step and its escalation changes no more objects
\* than the budget the spike step left over; the tick reading 1200 after it
\* lowers High objects before any other.
C13_EndToEndExample ==
    [][ (registry = "demo" /\ ev'.op = "eval") =>
          /\ (lastFreeMB' = 1024 /\ ~ev'.spike) => bias' = bias
          /\ (AllZero /\ lastFreeMB = 1024 /\ lastFreeMB' = 700) =>
                /\ \A i \in BucketMembers(objects, "Low") :
                      \E k \in DOMAIN ev'.log : /\ ev'.log[k].idx = i
                                                /\ ev'.log[k].d = stepSpike
                                                /\ ev'.log[k].eff
                /\ Cardinality({k \in DOMAIN ev'.log :
                                  ev'.log[k].d = stepGradual /\ ev'.log[k].eff})
                     <= stepBudgetPerTick
                        - Cardinality({k \in DOMAIN ev'.log :
                                         ev'.log[k].d = stepSpike /\ ev'.log[k].eff})
          /\ (lastFreeMB = 700 /\ lastFreeMB' = 1200) =>
                /\ Len(ev'.log) > 0
                /\ objects[ev'.log[1].idx].priority = "High"
                /\ ev'.log[1].d = -stepGradual ]_vars

\* C14: a step that the clamp turns into no change costs no budget.  In each pass
\* of an executed tick (the spike pass over the Low bucket, the escalation or
\* de-escalation pass over all three buckets) no object is visited twice, at most
\* stepBudgetPerTick objects change, and a visible object of the pass is left
\* unvisited only when stepBudgetPerTick objects of that pass did change.
C14_SaturatedStepIsFree ==
    ev.op = "eval" =>
        /\ \A j, k \in Tried :
              (j # k /\ ev.log[j].idx = ev.log[k].idx) => ev.log[j].d # ev.log[k].d
        /\ Cardinality(Effective(SpikeSteps)) <= stepBudgetPerTick
        /\ Cardinality(Effective(GradualSteps)) <= stepBudgetPerTick
        /\ ev.spike =>
              \A i \in BucketMembers(objects, "Low") :
                 \/ \E k \in SpikeSteps : ev.log[k].idx = i
                 \/ Cardinality(Effective(SpikeSteps)) = stepBudgetPerTick
        /\ (lastFreeMB < Lo \/ lastFreeMB > Hi) =>
              \A i \in Idx : objects[i].visible =>
                 \/ \E k \in GradualSteps : ev.log[k].idx = i
                 \/ Cardinality(Effective(GradualSteps)) = stepBudgetPerTick

\* A pass visited stepBudgetPerTick saturated objects and, the budget untouched,
\* went on to change a later one.
C14_PassGoesOnPastSaturated ==
    /\ ev.op = "eval"
    /\ \E k \in Effective(GradualSteps) :
          Cardinality({j \in GradualSteps : j < k /\ ~ev.log[j].eff}) >= stepBudgetPerTick

\* C15: the global nudge stays within [-4, 4]; a nudge event changes no stored
\* bias; each frame hands stored bias + globalNudge to the renderer for every
\* object.
C15_NudgeBoundedAndAdditive ==
    [][ /\ -NudgeLimit <= globalNudge' /\ globalNudge' <= NudgeLimit
        /\ ev'.op = "nudge" => bias' = bias
        /\ ev'.op \in FrameOps =>
              /\ DOMAIN ev'.drawn = Idx
              /\ \A i \in Idx : ev'.drawn[i] = bias'[i] + globalNudge' ]_vars

\* The nudge stands at its upper limit while stored biases have moved, and a
\* frame has drawn with it.
C15_DrawnAtNudgeLimit ==
    /\ ev.op \in FrameOps
    /\ globalNudge = NudgeLimit
    /\ \E i \in Idx : bias[i] # 0 /\ ev.drawn[i] = bias[i] + NudgeLimit

\* C16: a B event with Shift held releases the most recent pad (none: nothing
\* changes) without allocating and without running the watchdog; a pad is
\* allocated by plain B only.
C16_ShiftBReleasesPad ==
    [][ /\ (ev'.op = "B" /\ ev'.shift) =>
              /\ gPads' = (IF gPads > 0 THEN gPads - 1 ELSE 0)
              /\ padBlocks' = gPads'
              /\ UNCHANGED << lastMB, noMoves, useTelemetry >>
        /\ gPads' > gPads => (ev'.op = "B" /\ ~ev'.shift) ]_vars

\* The frame-average density of the latest frame is not a number or lies
\* outside [0, 1].
Degenerate == day4.avgDensity.nan \/ day4.avgDensity.val < 0 \/ day4.avgDensity.val > 100
Day4Telemetry == day4.vramOK /\ day4.freeMB >= 0
DensityError == day4.avgDensity.val - targetDensity

\* C17: a frame whose frame-average density is not a number or lies outside
\* [0, 1] gets no step from the density keeper.
C17_DegenerateDensityIsNoOp ==
    (day4.ran /\ Degenerate) => day4.viaDensity = 0

C19_NothingToStepNoFault ==
    [][ (ev'.op \in FrameOps /\ \A i \in Idx : ~objects[i].visible) =>
          /\ ev'.hud = "ok"
          /\ bias' = bias /\ ev'.log = << >>
          /\ ev'.op \in {"first", "eval"} => (lastFreeMB' >= 0 /\ sinceEval' = 0) ]_vars

\* C20: the first evaluate call (lastFreeMB = -1) records the reading and the
\* time and changes no bias, whatever the reading.
C20_FirstCallOnlyRecords ==
    [][ (lastFreeMB = -1 /\ ev'.op \in FrameOps) =>
          /\ ev'.op = "first"
          /\ bias' = bias /\ ev'.log = << >>
          /\ lastFreeMB' >= 0
          /\ sinceEval' = 0 ]_vars

\* The first call recorded a reading below target - hysteresis with visible
\* objects registered, and raised none of them.
C20_FirstReadingBelowBand ==
    /\ ev.op = "first"
    /\ lastFreeMB < Lo
    /\ \E i \in Idx : objects[i].visible /\ bias[i] = 0

\* C21: an allocation check on an invalid reading leaves the watchdog alone; the
\* first valid sample is only recorded; each later valid check adds one to the
\* stall counter when lastMB - nowMB < 128 and sets it to 0 otherwise; and the
\* watchdog switches telemetry off only in a stalled check that brings the
\* counter to at least 2, that is, after two stalled checks with no check
\* showing a drop of at least 128 MB between them.
C21_WatchdogCountsStalls ==
    [][ gPads' = gPads + 1 =>
          /\ lastCheck' = "invalid" =>
                lastMB' = lastMB /\ noMoves' = noMoves /\ useTelemetry' = useTelemetry
          /\ lastCheck' = "first" =>
                lastMB < 0 /\ lastMB' >= 0 /\ noMoves' = noMoves
                /\ useTelemetry' = useTelemetry
          /\ lastCheck' = "stall" =>
                lastMB - lastMB' < WatchdogMinDropMB /\ noMoves' = noMoves + 1
          /\ lastCheck' = "move" =>
                lastMB - lastMB' >= WatchdogMinDropMB /\ noMoves' = 0
                /\ useTelemetry' = useTelemetry
          /\ (useTelemetry /\ ~useTelemetry') =>
                lastCheck' = "stall" /\ noMoves' >= 2 ]_vars

\* A stalled check that counts as the first of a new run: three checks came
\* before it, and telemetry is still enabled.
C21_StallCountedFromOne ==
    /\ ev.op = "B" /\ lastCheck = "stall"
    /\ noMoves = 1 /\ useTelemetry /\ gPads >= 4

\* C28: neither the operator's toggle nor reset touches the watchdog's stall
\* counter or its last sample, so once the counter has reached 2 a single
\* further stalled check on re-enabled telemetry disables telemetry again.
C28_CounterSurvivesToggle ==
    [][ /\ ev'.op \in {"C", "R"} => noMoves' = noMoves /\ lastMB' = lastMB
        /\ (gPads' = gPads + 1 /\ useTelemetry /\ noMoves >= 2
              /\ lastCheck' = "stall") => ~useTelemetry' ]_vars

\* Telemetry was disabled by the watchdog, re-enabled, and disabled again by
\* one more stalled check.
C28_DisabledAgainByOneStall ==
    ev.op = "B" /\ lastCheck = "stall" /\ noMoves = 3 /\ ~useTelemetry

\* C29: padBlocks equals the number of live pads and is never negative.
C29_PadBlocksCountsPads ==
    padBlocks = gPads /\ padBlocks >= 0

\* B pressed with Shift held, with pads allocated before it.
C29_CountAfterShiftB ==
    ev.op = "B" /\ ev.shift /\ gPads >= 2 /\ padBlocks = gPads

\* C23: in an executed tick whose reading dropped by spikeThreshMB or more and
\* lies inside [lo, hi], no Normal, High or invisible object changes, every
\* bias that changes is a Low-bucket object's and becomes min(bias + stepSpike,
\* biasMax), at most stepBudgetPerTick of them change, and a Low-bucket object
\* below biasMax is left alone only when the budget is spent.
C23_SpikeInBandHitsLowOnly ==
    [][ (ev'.op = "eval" /\ ev'.spike /\ Lo <= lastFreeMB' /\ lastFreeMB' <= Hi) =>
          LET low == BucketMembers(objects, "Low")
              hit == {i \in Idx : bias'[i] # bias[i]}
          IN /\ hit \subseteq low
             /\ \A i \in hit : bias'[i] = Min(bias[i] + stepSpike, objects[i].biasMax)
             /\ Cardinality(hit) <= stepBudgetPerTick
             /\ \A i \in low \ hit :
                   \/ bias[i] = objects[i].biasMax
                   \/ Cardinality(hit) = stepBudgetPerTick ]_vars

\* A spike tick inside the band raised a Low object while a visible Normal or
\* High object stood below its biasMax.
C23_SpikeInsideBand ==
    /\ ev.op = "eval" /\ ev.spike
    /\ Lo <= lastFreeMB /\ lastFreeMB <= Hi
    /\ \E k \in SpikeSteps : ev.log[k].eff
    /\ \E i \in Idx : objects[i].visible /\ Rank(i) > 0 /\ bias[i] < objects[i].biasMax

\* C25: a frame of the main loop never changes the bias of an object whose
\* visible flag is false, and evaluate never tries a step on one.
C25_InvisibleKeepsBias ==
    [][ ev'.op \in FrameOps =>
          /\ \A i \in Idx : ~objects[i].visible => bias'[i] = bias[i]
          /\ \A k \in DOMAIN ev'.log : objects[ev'.log[k].idx].visible ]_vars

\* An escalation tick found every visible object at biasMax, so none of its
\* budget was spent, and an invisible object still stands below its biasMax.
C25_BudgetLeftHiddenUntouched ==
    /\ ev.op = "eval" /\ lastFreeMB < Lo
    /\ ev.log # << >>
    /\ \A i \in Idx : objects[i].visible => bias[i] = objects[i].biasMax
    /\ \E i \in Idx : ~objects[i].visible /\ bias[i] < objects[i].biasMax

\* C22 as claimed: every step an executed tick tries is on a visible object, and
\* within one pass over one bucket the objects come by descending estMB, two
\* objects of equal estMB by ascending id.
C22_TraversalDeterministic ==
    ev.op = "eval" =>
        /\ \A k \in Tried : objects[ev.log[k].idx].visible
        /\ \A j, k \in Tried :
              (/\ j < k
               /\ ev.log[j].d = ev.log[k].d
               /\ Rank(ev.log[j].idx) = Rank(ev.log[k].idx)) =>
                 LET a == objects[ev.log[j].idx]
                     b == objects[ev.log[k].idx]
                 IN \/ a.estMB > b.estMB
                    \/ a.estMB = b.estMB /\ a.id < b.id

\* C27: a rate-limited tick leaves lastFreeMB alone whatever it read, and an
\* executed tick applies the spike step exactly when its reading lies
\* spikeThreshMB or more below the reading of the last executed evaluation,
\* whatever the frames in between have read.
C27_SpikeAgainstLastEvaluation ==
    [][ /\ ev'.op = "skip" => lastFreeMB' = lastFreeMB
        /\ ev'.op = "eval" =>
              /\ (lastFreeMB' - lastFreeMB <= -spikeThreshMB) <=>
                    (\E k \in DOMAIN ev'.log : ev'.log[k].d = stepSpike)
              /\ lastFreeMB' = ev'.read ]_vars

\* A spike step fired after two or more rate-limited frames, the last of which
\* read less than spikeThreshMB above the reading of the executed tick.
C27_DropAcrossSkippedTicks ==
    /\ ev.op = "eval" /\ ev.spike
    /\ ev.skips >= 2
    /\ ev.prev - lastFreeMB < spikeThreshMB
    /\ \E k \in SpikeSteps : ev.log[k].eff

Saturated == \A i \in Idx : objects[i].visible => bias[i] = objects[i].biasMax

\* C26: with every reading below target - hysteresis and frames being taken for
\* ever, the governor reaches a state from which every visible object's bias
\* equals its biasMax for good, so that no later tick changes a bias.
C26_EventuallySaturated ==
    <>[](Saturated /\ lastFreeMB < Lo)

\* An escalation tick has run with every visible object already at biasMax.
C26_TickAtSaturation ==
    /\ ev.op = "eval" /\ lastFreeMB < Lo /\ Saturated
    /\ ev.log # << >>
    /\ \A k \in Tried : ~ev.log[k].eff

\* C24: in the Day 4 governor the bias handed to the sampler at the end of a
\* frame lies in [-0.25, 3.0], whatever that frame's free-memory reading,
\* density reading and key were.
C24_Day4BiasWithinLimits ==
    lodBiasMin <= day4.lodBias /\ day4.lodBias <= lodBiasMax

\* A frame in which both controllers pushed upwards ended with the bias at 3.0.
C24_PushedAtUpperLimit ==
    /\ day4.ran /\ day4.lodBias = lodBiasMax
    /\ day4.viaVram > 0 /\ day4.viaDensity > 0

\* C30: in an executed tick of the Day 5R governor the gradual step changes at
\* most one of biasLow, biasNorm, biasHigh (biasLow counted from its value
\* after the spike step); biasNorm is raised only with biasLow at biasMax and
\* biasHigh only with biasLow and biasNorm at biasMax; biasNorm is lowered only
\* with biasHigh at biasMin and biasLow only with biasNorm and biasHigh at
\* biasMin; and after every handler the three biases lie in [biasMin, biasMax].
C30_OneTierPerGradualStep ==
    [][ /\ \A x \in {day5'.biasLow, day5'.biasNorm, day5'.biasHigh} :
              biasMin <= x /\ x <= biasMax
        /\ day5'.op = "eval" =>
              LET low == IF day5'.lastFreeMB - day5.lastFreeMB <= -spikeThreshMB
                         THEN Min(day5.biasLow + stepSpike, biasMax)
                         ELSE day5.biasLow
                  dL  == day5'.biasLow - low
                  dN  == day5'.biasNorm - day5.biasNorm
                  dH  == day5'.biasHigh - day5.biasHigh
              IN /\ Cardinality({t \in {"L", "N", "H"} :
                        \/ t = "L" /\ dL # 0
                        \/ t = "N" /\ dN # 0
                        \/ t = "H" /\ dH # 0}) <= 1
                 /\ dN > 0 => low = biasMax
                 /\ dH > 0 => low = biasMax /\ day5.biasNorm = biasMax
                 /\ dN < 0 => day5.biasHigh = biasMin
                 /\ dL < 0 => day5.biasNorm = biasMin /\ day5.biasHigh = biasMin
                 /\ (dL > 0 \/ dN > 0 \/ dH > 0) => day5'.lastFreeMB < Lo
                 /\ (dL < 0 \/ dN < 0 \/ dH < 0) => day5'.lastFreeMB > Hi ]_vars

\* An escalation tick has raised biasNorm, with biasLow at biasMax and biasHigh
\* still at biasMin.
C30_NormRaisedWithLowAtMax ==
    /\ day5.op = "eval" /\ day5.lastFreeMB < Lo
    /\ day5.biasLow = biasMax
    /\ biasMin < day5.biasNorm /\ day5.biasNorm < biasMax
    /\ day5.biasHigh = biasMin

====
